---- MODULE Spec2Model ----
(***************************************************************************)
(* Model of bouncing_ball.cpp: a ball launched inside a rotating regular   *)
(* polygon, reflected by its edges.                                        *)
(*                                                                         *)
(* Numbers.  The program computes in float.  The model computes the same   *)
(* expressions exactly, in the field Q(sqrt 3): a number is a record       *)
(* [a, b, d] standing for (a + b*sqrt(3)) / d, kept in lowest terms with   *)
(* d > 0, so that two numbers are equal iff their records are equal.       *)
(* Every cosine and sine of a multiple of 30 degrees lies in this field,   *)
(* so the triangle and the hexagon, rotated by whole multiples of 30       *)
(* degrees (ROTATION_SPEED = 30 deg/s, dt a whole number of seconds), are  *)
(* represented without rounding.  QSqrt is partial: it is defined exactly  *)
(* where the root lies in the field, and TLC stops with an error anywhere  *)
(* else, so no rounded value ever enters a state.                          *)
(***************************************************************************)
EXTENDS Integers, Sequences, FiniteSets, TLC

VARIABLES
    currentSides,   \* int currentSides
    polygon,        \* sf::ConvexShape polygon: points, rotation, position
    ballPosition,   \* sf::Vector2f ballPosition
    velocity,       \* sf::Vector2f velocity
    launched,       \* bool launched
    dt,             \* float dt of the frame in progress
    windowOpen,     \* window.isOpen()
    pc,             \* position in main's loop: "frame", "events", "closed", or a call site
    elapsed,        \* history: sum of every dt read from the clock
    sinceShape,     \* history: sum of the dt read since the polygon object was last replaced
    launchDir,      \* history: mousePos - ballPosition of the launch in effect, or "none"
    lastEvent,      \* history: the event handled last in the frame in progress, and the flag it found
    edgeLog,        \* history: per edge of the frame's collision loop, the ball before and after
    callArgs,       \* arguments of a direct call of a function
    callResult      \* what that call produced

vars == <<currentSides, polygon, ballPosition, velocity, launched, dt, windowOpen, pc,
          elapsed, sinceShape, launchDir, lastEvent, edgeLog, callArgs, callResult>>

----------------------------------------------------------------------------
(* Exact arithmetic in Q(sqrt 3)                                           *)

Abs(n) == IF n < 0 THEN -n ELSE n

RECURSIVE GCD(_, _)
GCD(m, n) == IF n = 0 THEN m ELSE GCD(n, m % n)

\* (a + b*sqrt 3)/d in lowest terms, d > 0
QNorm(a, b, d) ==
    LET s == IF d < 0 THEN -1 ELSE 1
        g == GCD(GCD(Abs(a), Abs(b)), Abs(d))
    IN  [a |-> (s * a) \div g, b |-> (s * b) \div g, d |-> (s * d) \div g]

QInt(n) == [a |-> n, b |-> 0, d |-> 1]

QZero == QInt(0)

QNeg(x) == [a |-> -x.a, b |-> -x.b, d |-> x.d]

QAdd(x, y) ==
    LET g == GCD(x.d, y.d)
        fx == y.d \div g
        fy == x.d \div g
    IN  QNorm(x.a * fx + y.a * fy, x.b * fx + y.b * fy, x.d * fx)

QSub(x, y) == QAdd(x, QNeg(y))

\* cross-cancel before multiplying to keep the intermediate products small
QMul(x, y) ==
    LET g1 == GCD(GCD(Abs(x.a), Abs(x.b)), y.d)
        g2 == GCD(GCD(Abs(y.a), Abs(y.b)), x.d)
        xa == x.a \div g1
        xb == x.b \div g1
        ya == y.a \div g2
        yb == y.b \div g2
    IN  QNorm(xa * ya + 3 * xb * yb, xa * yb + xb * ya, (x.d \div g2) * (y.d \div g1))

\* 1/y = d*(a - b*sqrt 3) / (a^2 - 3 b^2); y # 0
QInv(y) == QNorm(y.d * y.a, -(y.d * y.b), y.a * y.a - 3 * y.b * y.b)

QDiv(x, y) == QMul(x, QInv(y))

\* a versus b*sqrt(3) for a, b > 0, by Euclid's descent (no squaring): -1, 1
RECURSIVE CmpRoot3(_, _)
CmpRoot3(a, b) ==
    IF a >= 2 * b THEN 1
    ELSE IF a <= b THEN -1
    ELSE -CmpRoot3(2 * b - (a - b), a - b)

\* the sign of x: -1, 0, 1
QSign(x) ==
    IF x.a = 0 /\ x.b = 0 THEN 0
    ELSE IF x.a >= 0 /\ x.b >= 0 THEN 1
    ELSE IF x.a <= 0 /\ x.b <= 0 THEN -1
    ELSE IF x.a > 0 THEN CmpRoot3(x.a, -x.b)
    ELSE -CmpRoot3(-x.a, x.b)

QLess(x, y) == QSign(QSub(x, y)) < 0

RECURSIVE ISqrtIter(_, _, _)
ISqrtIter(n, lo, hi) ==
    IF lo >= hi THEN lo
    ELSE LET mid == (lo + hi + 1) \div 2
         IN  IF mid * mid <= n THEN ISqrtIter(n, mid, hi) ELSE ISqrtIter(n, lo, mid - 1)

\* floor of the square root of n >= 0
ISqrt(n) == ISqrtIter(n, 0, IF n < 46340 THEN n ELSE 46340)

\* std::sqrt, where the root is in the field: x = m/d^2 with m = s^2 or m = 3 t^2
QSqrt(x) ==
    LET m == x.a * x.d
        s == ISqrt(m)
        t == ISqrt(m \div 3)
    IN  CASE x.b = 0 /\ m >= 0 /\ s * s = m -> QNorm(s, 0, x.d)
          [] x.b = 0 /\ m >= 0 /\ s * s # m /\ 3 * t * t = m -> QNorm(0, t, x.d)

----------------------------------------------------------------------------
(* Constants of the program                                                *)

ROTATION_SPEED == 30

GRAVITY == 0

FRICTION_COEFFICIENT == 0

polygonRadius == 250

ballRadius == 10

speed == 300

centerX == 400

centerY == 320

tabWidth == 90

tabHeight == 30

tabMargin == 9

startY == 50

tabOutline == 1

firstTabSides == 3

lastTabSides == 10

----------------------------------------------------------------------------
(* sf::Vector2f and the vector utilities                                   *)

Vec(x, y) == [x |-> x, y |-> y]

VecInt(x, y) == Vec(QInt(x), QInt(y))

VAdd(u, v) == Vec(QAdd(u.x, v.x), QAdd(u.y, v.y))

VSub(u, v) == Vec(QSub(u.x, v.x), QSub(u.y, v.y))

VScale(k, v) == Vec(QMul(k, v.x), QMul(k, v.y))

dot(a, b) == QAdd(QMul(a.x, b.x), QMul(a.y, b.y))

length(v) == QSqrt(QAdd(QMul(v.x, v.x), QMul(v.y, v.y)))

normalize(v) ==
    LET len == length(v)
    IN  IF len # QZero THEN Vec(QDiv(v.x, len), QDiv(v.y, len))
        ELSE VecInt(0, 0)

center == VecInt(centerX, centerY)

----------------------------------------------------------------------------
(* std::cos and std::sin at multiples of 30 degrees                        *)

CosTable ==
    << [a |-> 1, b |-> 0, d |-> 1],  [a |-> 0, b |-> 1, d |-> 2],
       [a |-> 1, b |-> 0, d |-> 2],  [a |-> 0, b |-> 0, d |-> 1],
       [a |-> -1, b |-> 0, d |-> 2], [a |-> 0, b |-> -1, d |-> 2],
       [a |-> -1, b |-> 0, d |-> 1], [a |-> 0, b |-> -1, d |-> 2],
       [a |-> -1, b |-> 0, d |-> 2], [a |-> 0, b |-> 0, d |-> 1],
       [a |-> 1, b |-> 0, d |-> 2],  [a |-> 0, b |-> 1, d |-> 2] >>

\* partial: only a multiple of 30 degrees has its cosine in the field
CosDeg(deg) == CASE deg % 30 = 0 -> CosTable[((deg \div 30) % 12) + 1]

SinDeg(deg) == CosDeg(deg - 90)

----------------------------------------------------------------------------
(* The polygon: sf::ConvexShape reduced to its points and its transform    *)

\* angle = 2*PI*i/sides - PI/2, in degrees; partial as CosDeg is
PointAngle(i, sides) == CASE (360 * i) % sides = 0 -> (360 * i) \div sides - 90

createPolygon(sides, radius) ==
    [ points   |-> [k \in 1..sides |->
                      Vec(QMul(radius, CosDeg(PointAngle(k - 1, sides))),
                          QMul(radius, SinDeg(PointAngle(k - 1, sides))))],
      rotation |-> 0,
      position |-> VecInt(0, 0) ]

setPosition(poly, p) == [poly EXCEPT !.position = p]

\* faulty variant: the angle is set, not added
rotateAbsolute(poly, angle) == [poly EXCEPT !.rotation = angle % 360]

\* sf::Transformable::rotate: the angle accumulates, kept in [0, 360)
rotate(poly, angle) == [poly EXCEPT !.rotation = (poly.rotation + angle) % 360]

\* getTransform().transformPoint: rotate about the origin, then translate
transformPoint(poly, p) ==
    LET c == CosDeg(poly.rotation)
        s == SinDeg(poly.rotation)
    IN  Vec(QAdd(QSub(QMul(c, p.x), QMul(s, p.y)), poly.position.x),
            QAdd(QAdd(QMul(s, p.x), QMul(c, p.y)), poly.position.y))

getPointCount(poly) == Len(poly.points)

----------------------------------------------------------------------------
(* Collision of the ball with one edge, and the loop over the edges        *)

\* the inward unit normal of edge a -> b
EdgeNormal(a, b) ==
    LET edge == VSub(b, a)
    IN  normalize(Vec(QNeg(edge.y), edge.x))

\* signed distance from the ball centre to the line of edge a -> b
EdgeDist(a, b, ballPos) == dot(VSub(ballPos, a), EdgeNormal(a, b))

\* faulty variant: the normal component is removed instead of reversed
ReflectInelastic(v, normal) == VSub(v, VScale(dot(v, normal), normal))

Reflect(v, normal) == VSub(v, VScale(QMul(QInt(2), dot(v, normal)), normal))

\* faulty variant: the ball is pushed by the radius, whatever its distance
PushOutByRadius(ballPos, dist, normal, radius) == VAdd(ballPos, VScale(radius, normal))

PushOut(ballPos, dist, normal, radius) == VAdd(ballPos, VScale(QSub(radius, dist), normal))

\* faulty variant: the comparison is reversed
ApproachingReversed(v, normal) == QLess(QZero, dot(v, normal))

\* faulty variant: a ball moving parallel to the edge counts as moving toward it
ApproachingOrParallel(v, normal) == ~QLess(QZero, dot(v, normal))

Approaching(v, normal) == QLess(dot(v, normal), QZero)

checkCollisionWithEdge(a, b, ballPos, vel, radius) ==
    LET normal == EdgeNormal(a, b)
        dist   == dot(VSub(ballPos, a), normal)
    IN  IF QLess(dist, radius) /\ Approaching(vel, normal)
        THEN [ballPos |-> PushOut(ballPos, dist, normal, radius), velocity |-> Reflect(vel, normal)]
        ELSE [ballPos |-> ballPos, velocity |-> vel]

EdgeStart(poly, i) == transformPoint(poly, poly.points[i + 1])

EdgeEnd(poly, i) == transformPoint(poly, poly.points[((i + 1) % getPointCount(poly)) + 1])

\* the for loop over the edges, from edge i on; the result is one record per edge:
\* the edge, the ball it was given and the ball it left
RECURSIVE EdgeLoop(_, _, _, _)
EdgeLoop(poly, i, ballPos, vel) ==
    IF i >= getPointCount(poly) THEN << >>
    ELSE LET pt1 == EdgeStart(poly, i)
             pt2 == EdgeEnd(poly, i)
             r   == checkCollisionWithEdge(pt1, pt2, ballPos, vel, QInt(ballRadius))
         IN  << [a |-> pt1, b |-> pt2, pos0 |-> ballPos, vel0 |-> vel,
                 pos1 |-> r.ballPos, vel1 |-> r.velocity] >>
             \o EdgeLoop(poly, i + 1, r.ballPos, r.velocity)

----------------------------------------------------------------------------
(* Bounds and the inputs drawn                                             *)

MaxElapsed == 4

MaxDt == 2

\* frame times, in whole seconds: the polygon then turns by multiples of 30 degrees
FrameTimes == 0..MaxDt

\* left clicks: inside the Triangle tab, inside the Hexagon tab, on no tab
ClickPoints == { <<50, 65>>, <<350, 65>>, <<400, 320>> }

\* pointer positions at a right click: on the ball centre, and at offsets from the
\* window centre whose length is a whole number
MousePoints == { <<400, 320>>, <<700, 320>>, <<403, 324>>, <<400, 20>> }

----------------------------------------------------------------------------
(* The shape tabs                                                          *)

NumTabs == lastTabSides - firstTabSides + 1

\* shapeOptions and the tab rectangles laid out left to right
Tabs ==
    [k \in 1..NumTabs |->
        [sides |-> firstTabSides + (k - 1),
         left  |-> tabMargin + (k - 1) * (tabWidth + tabMargin),
         top   |-> startY]]

\* tab.rect.getGlobalBounds().contains(mousePos); the bounds include the outline
TabContains(tab, m) ==
    /\ m[1] >= tab.left - tabOutline
    /\ m[1] < tab.left + tabWidth + tabOutline
    /\ m[2] >= tab.top - tabOutline
    /\ m[2] < tab.top + tabHeight + tabOutline

----------------------------------------------------------------------------
(* The program's state as one value, and the handlers as functions of it   *)

Snapshot ==
    [currentSides |-> currentSides, polygon |-> polygon, ballPosition |-> ballPosition,
     velocity |-> velocity, launched |-> launched]

\* faulty variant: the ball is left where it was
SelectShapeKeepsPosition(s, sides) ==
    [currentSides |-> sides,
     polygon      |-> setPosition(createPolygon(sides, QInt(polygonRadius)), center),
     ballPosition |-> s.ballPosition,
     velocity     |-> VecInt(0, 0),
     launched     |-> FALSE]

\* faulty variant: the velocity in flight is kept
SelectShapeKeepsVelocity(s, sides) ==
    [currentSides |-> sides,
     polygon      |-> setPosition(createPolygon(sides, QInt(polygonRadius)), center),
     ballPosition |-> center,
     velocity     |-> s.velocity,
     launched     |-> FALSE]

\* the body of the tab loop for a tab that contains the click
SelectShape(s, sides) ==
    [currentSides |-> sides,
     polygon      |-> setPosition(createPolygon(sides, QInt(polygonRadius)), center),
     ballPosition |-> center,
     velocity     |-> VecInt(0, 0),
     launched     |-> FALSE]

\* for (auto &tab : tabs), from tab k on
RECURSIVE TabLoop(_, _, _)
TabLoop(s, k, m) ==
    IF k > NumTabs THEN s
    ELSE TabLoop(IF TabContains(Tabs[k], m) THEN SelectShape(s, Tabs[k].sides) ELSE s, k + 1, m)

\* the tabs a click hits
TabsHit(m) == {k \in 1..NumTabs : TabContains(Tabs[k], m)}

\* faulty variant: the launched flag is not tested
CanLaunchAlways(isLaunched) == TRUE

\* the right-click branch is taken only when the ball is not launched
CanLaunch(isLaunched) == ~isLaunched

\* faulty variant: the unit direction is not multiplied by speed
LaunchVelocityUnscaled(ballPos, mousePos) ==
    LET dir  == VSub(mousePos, ballPos)
        dist == length(dir)
    IN  IF dist # QZero THEN normalize(dir) ELSE dir

\* the velocity a right click at mousePos gives the idle ball
LaunchVelocity(ballPos, mousePos) ==
    LET dir  == VSub(mousePos, ballPos)
        dist == length(dir)
        unit == IF dist # QZero THEN normalize(dir) ELSE dir
    IN  VScale(QInt(speed), unit)

\* gravity, then friction, applied to the velocity over d seconds
Damped(v, d) ==
    LET g == Vec(v.x, QAdd(v.y, QMul(QInt(GRAVITY), QInt(d))))
    IN  VScale(QSub(QInt(1), QMul(QInt(FRICTION_COEFFICIENT), QInt(d))), g)

Integrate(ballPos, v, d) == VAdd(ballPos, VScale(QInt(d), v))

\* the ball the collision loop leaves, given the loop's log
AfterLoop(log, ballPos, v) ==
    IF log = << >> THEN [ballPos |-> ballPos, velocity |-> v]
    ELSE [ballPos |-> log[Len(log)].pos1, velocity |-> log[Len(log)].vel1]

----------------------------------------------------------------------------
(* main                                                                    *)

NoEvent == [kind |-> "none", mouse |-> << >>, wasLaunched |-> FALSE]

NoCall == /\ callArgs = << >>
          /\ callResult = << >>

Init ==
    /\ currentSides = 3
    /\ polygon = setPosition(createPolygon(3, QInt(polygonRadius)), center)
    /\ ballPosition = center
    /\ velocity = VecInt(0, 0)
    /\ launched = FALSE
    /\ dt = 0
    /\ windowOpen = TRUE
    /\ pc = "frame"
    /\ elapsed = 0
    /\ sinceShape = 0
    /\ launchDir = << >>
    /\ lastEvent = NoEvent
    /\ edgeLog = << >>
    /\ NoCall

\* top of the while loop: read the clock, rotate the polygon
BeginFrame(d) ==
    /\ pc = "frame"
    /\ windowOpen
    /\ elapsed + d <= MaxElapsed
    /\ dt' = d
    /\ polygon' = rotate(polygon, ROTATION_SPEED * d)
    /\ elapsed' = elapsed + d
    /\ sinceShape' = sinceShape + d
    /\ edgeLog' = << >>
    /\ pc' = "events"
    /\ UNCHANGED <<currentSides, ballPosition, velocity, launched, windowOpen,
                   launchDir, lastEvent, callArgs, callResult>>

\* event: sf::Event::Closed
EventClosed ==
    /\ pc = "events"
    /\ windowOpen' = FALSE
    /\ lastEvent' = [kind |-> "closed", mouse |-> << >>, wasLaunched |-> launched]
    /\ UNCHANGED <<currentSides, polygon, ballPosition, velocity, launched, dt, pc,
                   elapsed, sinceShape, launchDir, edgeLog, callArgs, callResult>>

\* event: left mouse button pressed at m
EventLeftClick(m) ==
    /\ pc = "events"
    /\ \E s \in {TabLoop(Snapshot, 1, m)} :
           /\ currentSides' = s.currentSides
           /\ polygon' = s.polygon
           /\ ballPosition' = s.ballPosition
           /\ velocity' = s.velocity
           /\ launched' = s.launched
    /\ \E hit \in {TabsHit(m) # {}} :
           /\ sinceShape' = IF hit THEN 0 ELSE sinceShape
           /\ launchDir' = IF hit THEN << >> ELSE launchDir
    /\ lastEvent' = [kind |-> "left", mouse |-> m, wasLaunched |-> launched]
    /\ UNCHANGED <<dt, windowOpen, pc, elapsed, edgeLog, callArgs, callResult>>

\* event: right mouse button pressed, the pointer being at m
EventRightClick(m) ==
    /\ pc = "events"
    /\ IF CanLaunch(launched)
       THEN /\ velocity' = LaunchVelocity(ballPosition, VecInt(m[1], m[2]))
            /\ launched' = TRUE
            /\ launchDir' = << VSub(VecInt(m[1], m[2]), ballPosition) >>
       ELSE UNCHANGED <<velocity, launched, launchDir>>
    /\ lastEvent' = [kind |-> "right", mouse |-> m, wasLaunched |-> launched]
    /\ UNCHANGED <<currentSides, polygon, ballPosition, dt, windowOpen, pc,
                   elapsed, sinceShape, edgeLog, callArgs, callResult>>

\* the event queue is empty: the ball's update, the drawing, the loop test
EndFrame ==
    /\ pc = "events"
    /\ IF launched
       THEN \E v \in {Damped(velocity, dt)} :
            \E p \in {Integrate(ballPosition, v, dt)} :
            \E log \in {EdgeLoop(polygon, 0, p, v)} :
            \E r \in {AfterLoop(log, p, v)} :
                /\ velocity' = r.velocity
                /\ ballPosition' = r.ballPos
                /\ edgeLog' = log
       ELSE UNCHANGED <<velocity, ballPosition, edgeLog>>
    /\ pc' = IF windowOpen THEN "frame" ELSE "closed"
    /\ lastEvent' = NoEvent
    /\ UNCHANGED <<currentSides, polygon, launched, dt, windowOpen,
                   elapsed, sinceShape, launchDir, callArgs, callResult>>

\* An event of any other type matches neither branch of the event loop and changes
\* nothing: it is a stuttering step.  The red circle's own position (ball.setPosition)
\* is ballPosition minus the radius on both axes and is only drawn.
Next ==
    \/ \E d \in FrameTimes : BeginFrame(d)
    \/ EventClosed
    \/ \E m \in ClickPoints : EventLeftClick(m)
    \/ \E m \in MousePoints : EventRightClick(m)
    \/ EndFrame

Spec == Init /\ [][Next]_vars

----------------------------------------------------------------------------
(* The collision loop alone, on a ball placed anywhere                     *)

GridReach == 2

\* ball positions: a grid around the centre reaching past every edge
GridOffsets == {k * 120 : k \in -GridReach..GridReach}

EdgeSides == {3, 6}

EdgeRotations == {0, 30, 60, 90}

EdgeVelocities ==
    { VecInt(0, 0), VecInt(300, 0), VecInt(0, 300), VecInt(0, -300), VecInt(-180, -240) }

InitEdges ==
    /\ currentSides \in EdgeSides
    /\ \E rot \in EdgeRotations :
         polygon = rotate(setPosition(createPolygon(currentSides, QInt(polygonRadius)), center), rot)
    /\ \E ox \in GridOffsets, oy \in GridOffsets :
         ballPosition = VAdd(center, VecInt(ox, oy))
    /\ velocity \in EdgeVelocities
    /\ launched = TRUE
    /\ dt = 0
    /\ windowOpen = TRUE
    /\ pc = "edges"
    /\ elapsed = 0
    /\ sinceShape = 0
    /\ launchDir = << >>
    /\ lastEvent = NoEvent
    /\ edgeLog = << >>
    /\ NoCall

\* the for loop over the edges, run once
ResolveEdges ==
    /\ pc = "edges"
    /\ \E log \in {EdgeLoop(polygon, 0, ballPosition, velocity)} :
       \E r \in {AfterLoop(log, ballPosition, velocity)} :
           /\ edgeLog' = log
           /\ ballPosition' = r.ballPos
           /\ velocity' = r.velocity
    /\ pc' = "resolved"
    /\ UNCHANGED <<currentSides, polygon, launched, dt, windowOpen, elapsed, sinceShape,
                   launchDir, lastEvent, callArgs, callResult>>

NextEdges == ResolveEdges

SpecEdges == InitEdges /\ [][NextEdges]_vars

----------------------------------------------------------------------------
(* createPolygon alone, called with any arguments                          *)

MaxCallSides == 6

MaxCallRadius == 10

\* the side counts whose vertex angles are multiples of 30 degrees, and 0
CallSides == {n \in 0..MaxCallSides : n = 0 \/ (360 % n = 0 /\ (360 \div n) % 30 = 0)}

CallRadii == -MaxCallRadius..MaxCallRadius

InitCreate ==
    /\ currentSides = 3
    /\ polygon = setPosition(createPolygon(3, QInt(polygonRadius)), center)
    /\ ballPosition = center
    /\ velocity = VecInt(0, 0)
    /\ launched = FALSE
    /\ dt = 0
    /\ windowOpen = TRUE
    /\ pc = "call"
    /\ elapsed = 0
    /\ sinceShape = 0
    /\ launchDir = << >>
    /\ lastEvent = NoEvent
    /\ edgeLog = << >>
    /\ NoCall

\* createPolygon(sides, radius) runs to its return statement: the function has no
\* check of its arguments and no other exit
CallCreatePolygon(sides, radius) ==
    /\ pc = "call"
    /\ callArgs' = <<sides, radius>>
    /\ callResult' = [outcome |-> "returned", polygon |-> createPolygon(sides, QInt(radius))]
    /\ UNCHANGED <<currentSides, polygon, ballPosition, velocity, launched, dt, windowOpen,
                   pc, elapsed, sinceShape, launchDir, lastEvent, edgeLog>>

NextCreate == \E sides \in CallSides, radius \in CallRadii : CallCreatePolygon(sides, radius)

SpecCreate == InitCreate /\ [][NextCreate]_vars

----------------------------------------------------------------------------
(* Properties                                                              *)

Zero2 == VecInt(0, 0)

Radius == QInt(ballRadius)

\* the tolerance of the distance comparisons: 1/1000 pixel
Epsilon == [a |-> 1, b |-> 0, d |-> 1000]

SpeedSquared(v) == dot(v, v)

\* z component of the cross product: zero iff u and v are parallel
Cross(u, v) == QSub(QMul(u.x, v.y), QMul(u.y, v.x))

LogNormal(i) == EdgeNormal(edgeLog[i].a, edgeLog[i].b)

\* a left click on a tab was the last event handled
TabJustSelected == lastEvent.kind = "left" /\ TabsHit(lastEvent.mouse) # {}

\* C1: after a left click on a tab, whatever the state before, the ball is not
\* launched, its velocity is (0,0), it is at the polygon centre, and the polygon has
\* the number of sides of the tab clicked.
C1_ShapeSelectionResets ==
    TabJustSelected =>
        /\ launched = FALSE
        /\ velocity = Zero2
        /\ ballPosition = center
        /\ polygon.position = center
        /\ \A k \in TabsHit(lastEvent.mouse) :
             /\ currentSides = Tabs[k].sides
             /\ getPointCount(polygon) = Tabs[k].sides

\* the Hexagon tab was clicked while the ball was in flight
C1_Witness ==
    /\ TabJustSelected
    /\ lastEvent.wasLaunched
    /\ currentSides = 6
    /\ elapsed > 0

\* C2: whenever the ball is not launched, its velocity is (0,0) and it is at the
\* polygon centre; so a frame passed while idle moves nothing but the polygon.
C2_IdleBallPinned ==
    ~launched => (velocity = Zero2 /\ ballPosition = center /\ polygon.position = center)

\* idle at a frame boundary, after a shape selection that came after some time, and
\* after a later frame that turned the polygon
C2_Witness ==
    /\ ~launched
    /\ pc = "frame"
    /\ sinceShape > 0
    /\ sinceShape < elapsed
    /\ polygon.rotation # 0

\* C3: a right click while the ball is launched changes nothing of the ball, the
\* shape or the polygon.
C3_LaunchWhileLaunchedIsNoOp ==
    [][(launched /\ lastEvent' # lastEvent /\ lastEvent'.kind = "right") =>
          /\ ballPosition' = ballPosition
          /\ velocity' = velocity
          /\ launched' = launched
          /\ currentSides' = currentSides
          /\ polygon' = polygon]_vars

\* a right click was handled while the ball was in flight, away from the centre
C3_Witness ==
    /\ lastEvent.kind = "right"
    /\ lastEvent.wasLaunched
    /\ velocity # Zero2
    /\ ballPosition # center

\* the direction of the launch handled last: pointer minus ball
LastLaunchDirection == VSub(VecInt(lastEvent.mouse[1], lastEvent.mouse[2]), ballPosition)

\* C4: a right click while idle launches the ball; for a non-zero direction the
\* velocity points along the direction with speed exactly 300, for the zero direction
\* the ball is launched with velocity (0,0).
C4_LaunchSetsVelocity ==
    (lastEvent.kind = "right" /\ ~lastEvent.wasLaunched) =>
        /\ launched
        /\ IF LastLaunchDirection = Zero2
           THEN velocity = Zero2
           ELSE /\ SpeedSquared(velocity) = QInt(speed * speed)
                /\ Cross(velocity, LastLaunchDirection) = QZero
                /\ QLess(QZero, dot(velocity, LastLaunchDirection))

\* a launch along a direction that is not a coordinate axis
C4_Witness ==
    /\ lastEvent.kind = "right"
    /\ ~lastEvent.wasLaunched
    /\ launched
    /\ velocity.x # QZero
    /\ velocity.y # QZero

\* a launch with the pointer exactly on the ball
C4_WitnessZero ==
    /\ lastEvent.kind = "right"
    /\ ~lastEvent.wasLaunched
    /\ LastLaunchDirection = Zero2
    /\ launched

\* a frame's collision loop has just run
AfterTick == pc \in {"frame", "closed"} /\ edgeLog # << >>

\* edge i of the loop is penetrated by the ball as the loop left it
PenetratedAtEnd(i) ==
    QLess(EdgeDist(edgeLog[i].a, edgeLog[i].b, ballPosition), QSub(Radius, Epsilon))

\* C5 as claimed: after the loop over the edges of a launched frame, the ball's signed
\* distance to every edge is at least ballRadius - epsilon.
C5_NoEdgeLeftPenetrated ==
    AfterTick => \A i \in DOMAIN edgeLog : ~PenetratedAtEnd(i)

\* C5 as amended: right after each edge is resolved, the ball is at signed distance at
\* least ballRadius - epsilon from that edge or is not moving toward it.
C5_EachEdgeResolvedOrSeparating ==
    \A i \in DOMAIN edgeLog :
        \/ ~QLess(EdgeDist(edgeLog[i].a, edgeLog[i].b, edgeLog[i].pos1), QSub(Radius, Epsilon))
        \/ ~QLess(dot(edgeLog[i].vel1, LogNormal(i)), QZero)

\* a frame in which one edge pushed the ball out and the loop still left an edge
\* penetrated
C5_Witness ==
    /\ AfterTick
    /\ \E i \in DOMAIN edgeLog : edgeLog[i].pos1 # edgeLog[i].pos0
    /\ \E j \in DOMAIN edgeLog : PenetratedAtEnd(j)

\* edge i was given a ball closer than ballRadius and moving toward it
HitEdge(i) ==
    /\ QLess(EdgeDist(edgeLog[i].a, edgeLog[i].b, edgeLog[i].pos0), Radius)
    /\ QLess(dot(edgeLog[i].vel0, LogNormal(i)), QZero)

\* the unit tangent of edge i
LogTangent(i) == Vec(LogNormal(i).y, QNeg(LogNormal(i).x))

\* C6: for a ball at signed distance d < ballRadius moving toward the edge, the
\* call reverses the normal component of the velocity, keeps the tangent component
\* and the speed, and moves the ball along the normal by ballRadius - d, to signed
\* distance ballRadius.
C6_ReflectionLaw ==
    \A i \in DOMAIN edgeLog :
        HitEdge(i) =>
            LET e == edgeLog[i]
                n == LogNormal(i)
                d == EdgeDist(e.a, e.b, e.pos0)
            IN  /\ dot(e.vel1, n) = QNeg(dot(e.vel0, n))
                /\ dot(e.vel1, LogTangent(i)) = dot(e.vel0, LogTangent(i))
                /\ SpeedSquared(e.vel1) = SpeedSquared(e.vel0)
                /\ VSub(e.pos1, e.pos0) = VScale(QSub(Radius, d), n)
                /\ EdgeDist(e.a, e.b, e.pos1) = Radius

\* an edge hit obliquely: the velocity has a normal and a tangent component
C6_Witness ==
    \E i \in DOMAIN edgeLog :
        /\ HitEdge(i)
        /\ dot(edgeLog[i].vel0, LogTangent(i)) # QZero
        /\ edgeLog[i].pos1 # edgeLog[i].pos0

\* the velocity given to the loop moves toward no edge
SeparatingFromAll ==
    \A i \in DOMAIN edgeLog : ~QLess(dot(edgeLog[1].vel0, LogNormal(i)), QZero)

\* C7: if the velocity has a non-negative component along the inward normal of every
\* edge, the loop leaves position and velocity unchanged, also within ballRadius of
\* an edge or past it.
C7_SeparatingBallUnchanged ==
    (pc = "resolved" /\ SeparatingFromAll) =>
        /\ ballPosition = edgeLog[1].pos0
        /\ velocity = edgeLog[1].vel0
        /\ \A i \in DOMAIN edgeLog :
             edgeLog[i].pos1 = edgeLog[i].pos0 /\ edgeLog[i].vel1 = edgeLog[i].vel0

\* such a ball, closer than ballRadius to an edge
C7_Witness ==
    /\ pc = "resolved"
    /\ SeparatingFromAll
    /\ \E i \in DOMAIN edgeLog :
         QLess(EdgeDist(edgeLog[i].a, edgeLog[i].b, edgeLog[1].pos0), Radius)

WorldVertices ==
    [k \in 1..getPointCount(polygon) |-> transformPoint(polygon, polygon.points[k])]

\* vertex k of a regular polygon of the program's radius about the centre, turned by
\* ROTATION_SPEED degrees per second for secs seconds
TurnedVertex(k, sides, secs) ==
    LET angle == PointAngle(k - 1, sides) + ROTATION_SPEED * secs
    IN  VAdd(center, Vec(QMul(QInt(polygonRadius), CosDeg(angle)),
                         QMul(QInt(polygonRadius), SinDeg(angle))))

\* C9 as claimed: the rotation is ROTATION_SPEED times the time elapsed since startup,
\* so the world vertices depend only on that time and the number of sides.
C9_RotationFollowsElapsedTime ==
    /\ polygon.rotation = (ROTATION_SPEED * elapsed) % 360
    /\ WorldVertices = [k \in 1..currentSides |-> TurnedVertex(k, currentSides, elapsed)]

\* C9 as amended: the rotation is ROTATION_SPEED times the time read from the clock
\* since the last shape selection (since startup if there was none), modulo 360, and
\* the world vertices depend only on that time and the number of sides.
C9_RotationFollowsTimeSinceShape ==
    /\ polygon.rotation = (ROTATION_SPEED * sinceShape) % 360
    /\ WorldVertices = [k \in 1..currentSides |-> TurnedVertex(k, currentSides, sinceShape)]

\* a hexagon selected after startup that has turned since
C9_Witness ==
    /\ currentSides = 6
    /\ sinceShape > 0
    /\ sinceShape < elapsed
    /\ polygon.rotation = ROTATION_SPEED * sinceShape

\* C10: createPolygon returns a polygon only for sides >= 3 and radius > 0.
C10_CreateFailsFast ==
    (callArgs # << >> /\ callResult.outcome = "returned") =>
        (callArgs[1] >= 3 /\ callArgs[2] > 0)

====
